---- MODULE Spec2Model ----
(***************************************************************************)
(* Transaction lifecycle tracker of the PulsarTrack frontend:              *)
(*   store/tx-store.ts        (src/unnamed/part_003)  the persisted store  *)
(*   lib/wallet.ts            callContract: submit, record, inline poll    *)
(*   lib/tx-recovery.ts       (src/unnamed/part_005)  sweep and poll       *)
(*   components/header.tsx    (src/unnamed/part_001)  sweep on mount/timer *)
(*   wallet/TxHistory.tsx     (src/unnamed/part_000)  purge, manual poll   *)
(*                                                                         *)
(* JavaScript runs one continuation at a time, so one action of the model  *)
(* is one run-to-completion segment of a handler: from the resolution of   *)
(* one await to the next await (or to the return).  The clock is counted   *)
(* in hours (Date.now() is in ms; every threshold of the code is a whole   *)
(* number of hours).                                                       *)
(***************************************************************************)
EXTENDS Integers, Sequences, FiniteSets, TLC

(* ------------------------------ bounds -------------------------------- *)
\* external events of one run: calls of callContract, clicks on "Check
\* Status", firings of the sweep interval, reloads, advances of the clock
MaxEvents == 3
\* active polls in flight at the same time: invocations of callContract
\* and of pollTransaction that have not returned
MaxActive == 1
\* sweeps whose queries may be outstanding at the same time
NumSweeps == 2

\* external events of one run of the feed: ledger messages, stream errors,
\* sockets connecting, closing and failing, the close of the server
MaxFeedEvents == 6
\* sockets that connect in one run
MaxClients == 3
\* notifications kept per txHash in the log of what was shown
MaxNotes == 2

(* ------------------------- program constants -------------------------- *)
\* wallet.ts:286  for (let i = 0; i < 10; i++)
CALL_POLL_ATTEMPTS == 10
\* TxHistory.tsx:31  pollTransaction(txHash, 5, 2000)
RETRY_POLL_ATTEMPTS == 5
\* tx-recovery.ts:41  if (ageInHours > 24)
EXPIRY_HOURS == 24
\* TxHistory.tsx:26  clearOldTransactions(30)
RETENTION_DAYS == 30
\* tx-store.ts:69  olderThanDays * 24 * 60 * 60 * 1000, in hours
HOURS_PER_DAY == 24

\* websocket-server.ts:15  const INITIAL_BACKOFF_MS = 1000
INITIAL_BACKOFF_MS == 1000
\* websocket-server.ts:16  const MAX_BACKOFF_MS = 30000
MAX_BACKOFF_MS == 30000

Calls == 1..MaxActive
Polls == 1..MaxActive
Sweeps == 1..NumSweeps
\* the hashes the ledger hands out, in the order it hands them out
HashOf == <<"tx1", "tx2", "tx3", "tx4", "tx5", "tx6", "tx7", "tx8">>
Hashes == {HashOf[n] : n \in 1..MaxEvents}
\* the amounts by which the clock is advanced: one hour, the expiry
\* threshold, the retention window
TickSteps == {1, EXPIRY_HOURS, RETENTION_DAYS * HOURS_PER_DAY}

\* an absent optional field (undefined)
None == "none"

VARIABLES
    transactions,   \* zustand state: Transaction[] (newest first)
    storage,        \* localStorage["pulsar-tx-storage"]: the persisted copy
    now,            \* Date.now(), in hours
    events,         \* external events so far
    issued,         \* number of hashes the ledger has handed out
    ui,             \* "init" | "header" | "ready": which mount effects have run
    call,           \* callContract invocations
    poll,           \* pollTransaction invocations
    sweep,          \* checkPendingTransactions invocations
    pollingTxHash,  \* TxHistory state: the hash whose "Check Status" spins
    queried,        \* hashes for which a getTransaction has been issued
    upstream,       \* per hash: AnyOutcome, or the one outcome the ledger reports
    swept           \* hashes for which a check of a sweep got an answer

\* the store when it is called directly
VARIABLES
    raised          \* the error the last direct call of the store raised

\* the ledger feed of the backend (services/websocket-server.ts)
VARIABLES
    wss,            \* "none" | "listening" | "closed": the WebSocketServer
    clients,        \* Set<WebSocket>, in insertion order
    readyState,     \* per socket: ws.readyState
    failing,        \* sockets whose send() raises
    currentBackoff, \* ms
    stopStream,     \* null, or the closer of the stream started last
    reconnectTimer, \* null, or the delay the pending timer was set with
    stream,         \* the stream started last: "none" | "connecting" | "open"
    late,           \* a stopped stream still has an error callback queued
    lastBroadcast,  \* the last call of broadcast: event, receivers, outcome
    fevents,        \* external events of the feed so far
    lawDelay,       \* the delay the backoff law prescribes for the next failure
    errorPending,   \* an upstream error was reported and no stream started since
    ledgerSince,    \* a ledger message was delivered since the last upstream error
    degraded,       \* "reconnecting" was broadcast and no "reconnected" since
    openStreams,    \* streams started and not closed
    armed           \* timers set by setTimeout, neither fired nor cleared

\* useTxNotifications: previousTxsRef (txHash -> the status seen by the last
\* scan) and the notifications shown so far, per txHash, in order
VARIABLES
    previousTxs, notified

feedVars == <<wss, clients, readyState, failing, currentBackoff, stopStream,
              reconnectTimer, stream, late, lastBroadcast, fevents, lawDelay,
              errorPending, ledgerSince, degraded, openStreams, armed>>

storeVars == <<transactions, storage, previousTxs, notified, now, events, issued, ui, call, poll, sweep,
               pollingTxHash, queried, upstream, swept>>

vars == <<transactions, storage, previousTxs, notified, now, events, issued, ui, call, poll, sweep,
          pollingTxHash, queried, upstream, swept, raised, wss, clients,
          readyState, failing, currentBackoff, stopStream, reconnectTimer,
          stream, late, lastBroadcast, fevents, lawDelay, errorPending,
          ledgerSince, degraded, openStreams, armed>>

(* ------------------------- upstream answers --------------------------- *)
\* server.getTransaction(hash): a status (with a return value when
\* SUCCESS, possibly absent), or a rejected promise ("THROW")
ReturnValues == {"scval", None}
GetTxAnswers ==
    {[status |-> "SUCCESS", returnValue |-> v] : v \in ReturnValues}
    \cup {[status |-> s, returnValue |-> None] : s \in {"FAILED", "NOT_FOUND", "THROW"}}

\* the answers a query for h can get: any of them, or, for a hash whose
\* outcome is fixed, that outcome or a transport error
NotAnswer == [status |-> "THROW", returnValue |-> None]
\* the ledger may answer anything for the hash / its outcome is not drawn yet
AnyOutcome == [status |-> "ANY", returnValue |-> None]
NotDrawn == [status |-> "NOT_DRAWN", returnValue |-> None]
AnswersFor(h) ==
    IF upstream[h] = AnyOutcome THEN GetTxAnswers ELSE {upstream[h], NotAnswer}
Outcomes == GetTxAnswers \ {NotAnswer}

\* scValToNative(returnVal)
scValToNative(v) == IF v = "scval" THEN "native" ELSE v

\* JSON.parse(JSON.stringify(result)): an xdr.ScVal instance comes back as
\* a plain object, null and native values come back as they were, an
\* undefined property is dropped
JsonRoundTrip(r) == IF r = "scval" THEN "scval_plain" ELSE r

(* ------------------------------ store --------------------------------- *)
\* interface Transaction
Transaction(h, ty, st, ts, d) ==
    [txHash |-> h, type |-> ty, status |-> st, timestamp |-> ts,
     description |-> d, result |-> None, error |-> None]

\* variant: the merge loses the description of the record
Spread_Lossy(tx, updates) ==
    [f \in DOMAIN tx |-> IF f \in DOMAIN updates THEN updates[f]
                         ELSE IF f = "description" THEN None ELSE tx[f]]
\* { ...tx, ...updates }
Spread(tx, updates) ==
    [f \in DOMAIN tx |-> IF f \in DOMAIN updates THEN updates[f] ELSE tx[f]]

\* addTransaction: prepend, stamped with Date.now()
addTransaction(txs, tx, t) == <<[tx EXCEPT !.timestamp = t]>> \o txs

\* variant: an update that writes nothing
updateTransaction_Noop(txs, txHash, updates) == txs
\* updateTransaction: merge the updates into every record with that hash
updateTransaction(txs, txHash, updates) ==
    [k \in DOMAIN txs |->
        IF txs[k].txHash = txHash THEN Spread(txs[k], updates) ELSE txs[k]]

\* getTransaction (of the store)
HasTx(txs, h) == \E k \in DOMAIN txs : txs[k].txHash = h
TxOf(txs, h) == txs[CHOOSE k \in DOMAIN txs : txs[k].txHash = h]

\* getPendingTransactions
IsPending(tx) == tx.status = "pending"
getPendingTransactions(txs) == SelectSeq(txs, IsPending)

\* variant: a purge by age alone, pending records included
clearOldTransactions_AgeOnly(txs, olderThanDays, t) ==
    LET cutoffTime == t - olderThanDays * HOURS_PER_DAY
        Keep(tx) == tx.timestamp > cutoffTime
    IN  SelectSeq(txs, Keep)
\* clearOldTransactions(olderThanDays)
clearOldTransactions(txs, olderThanDays, t) ==
    LET cutoffTime == t - olderThanDays * HOURS_PER_DAY
        Keep(tx) == tx.timestamp > cutoffTime \/ tx.status = "pending"
    IN  SelectSeq(txs, Keep)

\* persist middleware: every set() writes the state to localStorage as JSON
Persist(txs) == [k \in DOMAIN txs |-> [txs[k] EXCEPT !.result = JsonRoundTrip(@)]]
\* variant: a load that does not read the persisted state
Rehydrate_Empty(stored) == <<>>
\* rehydration on load: JSON.parse of what was written
Rehydrate(stored) == stored

(* ------------------------- results of a call -------------------------- *)
\* ContractCallResult / the object pollTransaction resolves to
RetOk(h, r) == [success |-> TRUE, txHash |-> h, result |-> r, error |-> None]
RetErr(h, e) == [success |-> FALSE, txHash |-> h, result |-> None, error |-> e]
\* the promise is not settled yet
NoRet == [success |-> FALSE, txHash |-> None, result |-> None, error |-> "(unsettled)"]

ERR_SIMULATION == "Simulation failed"
ERR_SUBMISSION == "Transaction submission failed"
ERR_ONCHAIN == "Transaction failed on-chain"
ERR_CALL_TIMEOUT == "Transaction polling timeout"
ERR_POLL_TIMEOUT == "Polling timeout"
ERR_EXPIRED == "Transaction not found (may have expired)"
\* err?.message of whatever was thrown inside the try block
ERR_THROWN == "err.message"

\* abandoned: the component that awaits the invocation has unmounted
IdleProc == [pc |-> "idle", txHash |-> None, i |-> 0, queries |-> 0, ret |-> NoRet,
             abandoned |-> FALSE]
IdleSweep == [state |-> "idle", checks |-> {}]

\* the lowest free slot: invocations are interchangeable
LowestFree(slots, free(_)) ==
    IF \E s \in slots : free(s)
    THEN CHOOSE s \in slots : free(s) /\ \A t \in slots : free(t) => s <= t
    ELSE 0

(* ------------------------------- Init --------------------------------- *)
\* the sockets that connect, in the order they connect
Sockets == 1..MaxClients
\* no timer is pending
NoTimer == [pending |-> FALSE, delay |-> 0]
\* broadcast has not been called
NoBroadcast == [seq |-> 0, type |-> None, retryMs |-> 0, to |-> <<>>, threw |-> FALSE]

\* websocket-server.ts after the module is loaded
FeedInit ==
    /\ wss = "none"
    /\ clients = <<>>
    /\ readyState = [c \in Sockets |-> "NEW"]
    /\ failing = {}
    /\ currentBackoff = INITIAL_BACKOFF_MS
    /\ stopStream = None
    /\ reconnectTimer = NoTimer
    /\ stream = "none"
    /\ late = FALSE
    /\ lastBroadcast = NoBroadcast
    /\ fevents = 0
    /\ lawDelay = INITIAL_BACKOFF_MS
    /\ errorPending = FALSE
    /\ ledgerSince = FALSE
    /\ degraded = FALSE
    /\ openStreams = 0
    /\ armed = 0

(* ------------------------- useTxNotifications ------------------------- *)
\* previousTxsRef = new Map(): no status seen; nothing shown
NoStatusSeen == [h \in Hashes |-> None]
NotifierInit ==
    /\ previousTxs = NoStatusSeen
    /\ notified = [h \in Hashes |-> <<>>]

\* showNotification(type, message), logged under the txHash it is about
showNotification(notes, h, type) ==
    IF Len(notes[h]) < MaxNotes THEN [notes EXCEPT ![h] = Append(@, type)] ELSE notes

\* the body of the effect: transactions.forEach in array order; a record
\* whose previous status was "pending" and whose status no longer is shows a
\* notification of its kind; then its status is remembered under its txHash
RECURSIVE useTxNotifications(_, _, _, _)
useTxNotifications(prev, notes, txs, i) ==
    IF i > Len(txs) THEN [prev |-> prev, notes |-> notes]
    ELSE LET tx == txs[i]
             previousStatus == prev[tx.txHash]
             type == IF tx.status = "success" THEN "success"
                     ELSE IF tx.status = "failed" THEN "error" ELSE None
             shown == previousStatus = "pending" /\ tx.status # "pending" /\ type # None
         IN useTxNotifications([prev EXCEPT ![tx.txHash] = tx.status],
                               IF shown THEN showNotification(notes, tx.txHash, type) ELSE notes,
                               txs, i + 1)

\* the effect runs after the render that follows a change of `transactions`
NotifierEffect(txs) ==
    LET r == useTxNotifications(previousTxs, notified, txs, 1) IN
    /\ previousTxs' = r.prev
    /\ notified' = r.notes

Init ==
    /\ transactions = <<>>
    /\ storage = <<>>
    /\ now = 0
    /\ events = 0
    /\ issued = 0
    /\ ui = "init"
    /\ call = [c \in Calls |-> IdleProc]
    /\ poll = [p \in Polls |-> IdleProc]
    /\ sweep = [s \in Sweeps |-> IdleSweep]
    /\ pollingTxHash = None
    /\ queried = {}
    /\ upstream = [h \in Hashes |-> AnyOutcome]
    /\ swept = {}
    /\ raised = None
    /\ NotifierInit
    /\ FeedInit

\* set(): the new state, written through to localStorage
\* and, while Header is mounted, the render and the notifier's effect after it
SetTransactions(txs) ==
    /\ transactions' = txs
    /\ storage' = Persist(txs)
    /\ IF ui # "init" THEN NotifierEffect(txs) ELSE UNCHANGED <<previousTxs, notified>>

(* --------------------------- callContract ----------------------------- *)
CallFree(c) == call[c].pc \in {"idle", "done"}
PollFree(p) == poll[p].pc \in {"idle", "done"}
\* the invocations of callContract and pollTransaction in flight
Active == Cardinality({c \in Calls : ~CallFree(c)}) + Cardinality({p \in Polls : ~PollFree(p)})

\* callContract(options): up to the first await (server.getAccount)
CallContract(c) ==
    /\ events < MaxEvents
    /\ events' = events + 1
    /\ Active < MaxActive
    /\ c = LowestFree(Calls, CallFree)
    /\ call' = [call EXCEPT ![c] = [IdleProc EXCEPT !.pc = "getAccount"]]
    /\ UNCHANGED <<raised, feedVars>>
    /\ UNCHANGED <<transactions, storage, previousTxs, notified, now, issued, ui, poll, sweep,
                   pollingTxHash, queried, upstream, swept>>

\* the return of callContract: the promise settles
CallReturn(c, r) == [call EXCEPT ![c] = [IdleProc EXCEPT !.pc = "done", !.ret = r]]

\* server.getAccount resolves (build tx, issue simulateTransaction) or rejects
CallGetAccountDone(c, ok) ==
    /\ call[c].pc = "getAccount"
    /\ call' = IF ok THEN [call EXCEPT ![c].pc = "simulate"]
               ELSE CallReturn(c, RetErr(None, ERR_THROWN))
    /\ UNCHANGED <<raised, feedVars>>
    /\ UNCHANGED <<transactions, storage, previousTxs, notified, now, events, issued, ui, poll, sweep,
                   pollingTxHash, queried, upstream, swept>>

\* simulateTransaction resolves: a simulation error, a result that
\* assembleTransaction accepts (signTx is awaited), or something throws
CallSimulateDone(c, r) ==
    /\ call[c].pc = "simulate"
    /\ call' = CASE r = "ok" -> [call EXCEPT ![c].pc = "sign"]
                 [] r = "simError" -> CallReturn(c, RetErr(None, ERR_SIMULATION))
                 [] OTHER -> CallReturn(c, RetErr(None, ERR_THROWN))
    /\ UNCHANGED <<raised, feedVars>>
    /\ UNCHANGED <<transactions, storage, previousTxs, notified, now, events, issued, ui, poll, sweep,
                   pollingTxHash, queried, upstream, swept>>

\* signTx resolves (fromXDR, issue sendTransaction) or rejects / fromXDR throws
CallSignDone(c, ok) ==
    /\ call[c].pc = "sign"
    /\ call' = IF ok THEN [call EXCEPT ![c].pc = "send"]
               ELSE CallReturn(c, RetErr(None, ERR_THROWN))
    /\ UNCHANGED <<raised, feedVars>>
    /\ UNCHANGED <<transactions, storage, previousTxs, notified, now, events, issued, ui, poll, sweep,
                   pollingTxHash, queried, upstream, swept>>

\* the record callContract adds
CallRecord(h) == Transaction(h, "other", "pending", 0, "method on contract")
\* variant: the record is not added at submission
CallRecordSubmission_Skipped(txs, h, t) == txs
\* the store after the submission has returned the hash h
CallRecordSubmission(txs, h, t) == addTransaction(txs, CallRecord(h), t)

\* variant: the record is added as soon as sendTransaction resolves, before
\* its status is looked at
CallSendDone_SaveFirst(c, r) ==
    /\ call[c].pc = "send"
    /\ CASE r = "ERROR" ->
              /\ issued' = issued + 1
              /\ SetTransactions(CallRecordSubmission(transactions, HashOf[issued + 1], now))
              /\ call' = CallReturn(c, RetErr(None, ERR_SUBMISSION))
              /\ UNCHANGED upstream
         [] r = "hash" ->
              /\ LET h == HashOf[issued + 1] IN
                 /\ issued' = issued + 1
                 /\ SetTransactions(CallRecordSubmission(transactions, h, now))
                 /\ call' = [call EXCEPT ![c].pc = "sleep", ![c].txHash = h, ![c].i = 0]
                 /\ \E o \in Outcomes :
                       upstream' = IF upstream[h] = AnyOutcome THEN upstream
                                   ELSE [upstream EXCEPT ![h] = o]
         [] OTHER ->
              /\ call' = CallReturn(c, RetErr(None, ERR_THROWN))
              /\ UNCHANGED <<transactions, storage, previousTxs, notified, issued, upstream>>
    /\ UNCHANGED <<raised, feedVars>>
    /\ UNCHANGED <<now, events, ui, poll, sweep, pollingTxHash, queried, swept>>

\* sendTransaction resolves with status ERROR, or with a hash (the record is
\* added and the first timer of the poll loop is set), or rejects
CallSendDone(c, r) ==
    /\ call[c].pc = "send"
    /\ CASE r = "ERROR" ->
              /\ call' = CallReturn(c, RetErr(None, ERR_SUBMISSION))
              /\ UNCHANGED <<transactions, storage, previousTxs, notified, issued, upstream>>
         [] r = "hash" ->
              /\ LET h == HashOf[issued + 1] IN
                 /\ issued' = issued + 1
                 /\ SetTransactions(CallRecordSubmission(transactions, h, now))
                 /\ call' = [call EXCEPT ![c].pc = "sleep", ![c].txHash = h, ![c].i = 0]
                 /\ \E o \in Outcomes :
                       upstream' = IF upstream[h] = AnyOutcome THEN upstream
                                   ELSE [upstream EXCEPT ![h] = o]
         [] OTHER ->
              /\ call' = CallReturn(c, RetErr(None, ERR_THROWN))
              /\ UNCHANGED <<transactions, storage, previousTxs, notified, issued, upstream>>
    /\ UNCHANGED <<raised, feedVars>>
    /\ UNCHANGED <<now, events, ui, poll, sweep, pollingTxHash, queried, swept>>

\* the 3 s timer fires: server.getTransaction(txHash) is issued
CallTimer(c) ==
    /\ call[c].pc = "sleep"
    /\ call' = [call EXCEPT ![c].pc = "query", ![c].queries = @ + 1]
    /\ queried' = queried \cup {call[c].txHash}
    /\ UNCHANGED <<raised, feedVars>>
    /\ UNCHANGED <<transactions, storage, previousTxs, notified, now, events, issued, ui, poll, sweep,
                   pollingTxHash, upstream, swept>>

\* result = returnVal ? scValToNative(returnVal) : null
CallResult(returnVal) == IF returnVal # None THEN scValToNative(returnVal) ELSE "null"

\* what callContract does when a getTransaction of its loop rejects:
\* the outer catch returns the error
CallQueryThrown(c) == CallReturn(c, RetErr(None, ERR_THROWN))

\* getTransaction settles inside the poll loop of callContract
CallGetTxDone(c, ans) ==
    /\ call[c].pc = "query"
    /\ ans \in AnswersFor(call[c].txHash)
    /\ LET h == call[c].txHash IN
       CASE ans.status = "SUCCESS" ->
              /\ SetTransactions(updateTransaction(transactions, h,
                     [status |-> "success", result |-> CallResult(ans.returnValue)]))
              /\ call' = CallReturn(c, RetOk(h, CallResult(ans.returnValue)))
         [] ans.status = "FAILED" ->
              /\ SetTransactions(updateTransaction(transactions, h,
                     [status |-> "failed", error |-> ERR_ONCHAIN]))
              /\ call' = CallReturn(c, RetErr(h, ERR_ONCHAIN))
         [] ans.status = "THROW" ->
              /\ call' = CallQueryThrown(c)
              /\ UNCHANGED <<transactions, storage, previousTxs, notified>>
         [] OTHER ->
              /\ call' = IF call[c].i + 1 < CALL_POLL_ATTEMPTS
                         THEN [call EXCEPT ![c].pc = "sleep", ![c].i = @ + 1]
                         ELSE CallReturn(c, RetErr(h, ERR_CALL_TIMEOUT))
              /\ UNCHANGED <<transactions, storage, previousTxs, notified>>
    /\ UNCHANGED <<raised, feedVars>>
    /\ UNCHANGED <<now, events, issued, ui, poll, sweep, pollingTxHash, queried, upstream, swept>>

(* --------------------------- pollTransaction -------------------------- *)

\* handleRetryPoll(txHash): the "Check Status" button of a pending record,
\* enabled unless that record is the one marked as polling;
\* pollTransaction(txHash, 5, 2000) runs up to its first timer
HandleRetryPoll(p, h) ==
    /\ events < MaxEvents
    /\ events' = events + 1
    /\ Active < MaxActive
    /\ ui = "ready"
    /\ p = LowestFree(Polls, PollFree)
    /\ HasTx(transactions, h)
    /\ TxOf(transactions, h).status = "pending"
    /\ pollingTxHash # h
    /\ pollingTxHash' = h
    /\ poll' = [poll EXCEPT ![p] = [IdleProc EXCEPT !.pc = "sleep", !.txHash = h]]
    /\ UNCHANGED <<raised, feedVars>>
    /\ UNCHANGED <<transactions, storage, previousTxs, notified, now, issued, ui, call, sweep, queried, upstream, swept>>

\* the timer of the loop fires: server.getTransaction(txHash) is issued
PollTimer(p) ==
    /\ poll[p].pc = "sleep"
    /\ poll' = [poll EXCEPT ![p].pc = "query", ![p].queries = @ + 1]
    /\ queried' = queried \cup {poll[p].txHash}
    /\ UNCHANGED <<raised, feedVars>>
    /\ UNCHANGED <<transactions, storage, previousTxs, notified, now, events, issued, ui, call, sweep,
                   pollingTxHash, upstream, swept>>

\* the return of pollTransaction; handleRetryPoll then clears pollingTxHash
PollReturn(p, r) == [poll EXCEPT ![p] = [IdleProc EXCEPT !.pc = "done", !.ret = r]]

\* the next iteration of the loop of pollTransaction, or its timeout return
PollNext(p, maxAttempts) ==
    IF poll[p].i + 1 < maxAttempts
    THEN [poll EXCEPT ![p].pc = "sleep", ![p].i = @ + 1]
    ELSE PollReturn(p, RetErr(None, ERR_POLL_TIMEOUT))

\* what pollTransaction does when a getTransaction rejects: the catch
\* inside the loop logs it and the loop goes on
PollQueryThrown(p, maxAttempts) == PollNext(p, maxAttempts)

\* getTransaction settles inside the loop of pollTransaction
PollGetTxDone(p, ans) ==
    /\ poll[p].pc = "query"
    /\ ans \in AnswersFor(poll[p].txHash)
    /\ LET h == poll[p].txHash IN
       CASE ans.status = "SUCCESS" ->
              /\ SetTransactions(updateTransaction(transactions, h,
                     [status |-> "success", result |-> ans.returnValue]))
              /\ poll' = PollReturn(p, RetOk(None, ans.returnValue))
         [] ans.status = "FAILED" ->
              /\ SetTransactions(updateTransaction(transactions, h,
                     [status |-> "failed", error |-> ERR_ONCHAIN]))
              /\ poll' = PollReturn(p, RetErr(None, ERR_ONCHAIN))
         [] ans.status = "THROW" ->
              /\ poll' = PollQueryThrown(p, RETRY_POLL_ATTEMPTS)
              /\ UNCHANGED <<transactions, storage, previousTxs, notified>>
         [] OTHER ->
              /\ poll' = PollNext(p, RETRY_POLL_ATTEMPTS)
              /\ UNCHANGED <<transactions, storage, previousTxs, notified>>
    /\ pollingTxHash' = IF poll'[p].pc = "done" /\ ~poll[p].abandoned
                        THEN None ELSE pollingTxHash
    /\ UNCHANGED <<raised, feedVars>>
    /\ UNCHANGED <<now, events, issued, ui, call, sweep, queried, upstream, swept>>

(* ----------------------- checkPendingTransactions --------------------- *)
SweepFree(s) == sweep[s].state # "running"

\* pendingTxs.map(async (tx) => ...): one check per pending record, each up
\* to its await of server.getTransaction(tx.txHash)
SweepChecks(txs) ==
    LET pendingTxs == getPendingTransactions(txs)
    IN  {[txHash |-> pendingTxs[k].txHash, timestamp |-> pendingTxs[k].timestamp] :
            k \in DOMAIN pendingTxs}

\* checkPendingTransactions(): returns at once when nothing is pending
checkPendingTransactions(s) ==
    LET checks == SweepChecks(transactions) IN
    /\ sweep' = IF checks = {} THEN sweep
                ELSE [sweep EXCEPT ![s] = [state |-> "running", checks |-> checks]]
    /\ queried' = queried \cup {c.txHash : c \in checks}

\* variant: every record counts as expired
Expired_Always(timestamp, t) == TRUE
\* the age test of a check whose query answered NOT_FOUND
\* ageInHours = (Date.now() - tx.timestamp) / (1000 * 60 * 60)
Expired(timestamp, t) == (t - timestamp) > EXPIRY_HOURS

\* variant: a check writes nothing
CheckUpdates_Nothing(check, ans, t) == {}
\* variant: a query that rejects marks the record failed
CheckUpdates_ThrowFails(check, ans, t) ==
    IF ans.status = "SUCCESS"
    THEN {[status |-> "success", result |-> ans.returnValue]}
    ELSE {[status |-> "failed", error |-> ERR_ONCHAIN]}
\* the updates a check writes for an answer: at most one updateTransaction
CheckUpdates(check, ans, t) ==
    CASE ans.status = "SUCCESS" ->
           {[status |-> "success", result |-> ans.returnValue]}
      [] ans.status = "FAILED" ->
           {[status |-> "failed", error |-> ERR_ONCHAIN]}
      [] ans.status = "NOT_FOUND" /\ Expired(check.timestamp, t) ->
           {[status |-> "failed", error |-> ERR_EXPIRED]}
      [] OTHER -> {}

\* variant: a query error rejects the whole sweep and drops its other checks
CheckSettled_Rejecting(s, check, ans) ==
    LET rest == sweep[s].checks \ {check}
    IN  IF ans.status = "THROW"
        THEN [sweep EXCEPT ![s] = [state |-> "rejected", checks |-> {}]]
        ELSE [sweep EXCEPT ![s] = [state |-> IF rest = {} THEN "idle" ELSE "running",
                                   checks |-> rest]]
\* the sweep after one of its checks has settled: try/catch inside the
\* check and Promise.allSettled keep the other checks going, and the sweep
\* is fulfilled when the last one settles
CheckSettled(s, check, ans) ==
    LET rest == sweep[s].checks \ {check}
    IN  [sweep EXCEPT ![s] = [state |-> IF rest = {} THEN "idle" ELSE "running",
                              checks |-> rest]]

\* the getTransaction of one check settles
SweepCheckDone(s, check, ans) ==
    /\ sweep[s].state = "running"
    /\ check \in sweep[s].checks
    /\ ans \in AnswersFor(check.txHash)
    /\ LET updates == CheckUpdates(check, ans, now) IN
       IF updates = {}
       THEN UNCHANGED <<transactions, storage, previousTxs, notified>>
       ELSE SetTransactions(updateTransaction(transactions, check.txHash,
                                              CHOOSE u \in updates : TRUE))
    /\ sweep' = CheckSettled(s, check, ans)
    /\ swept' = IF ans = NotAnswer \/ upstream[check.txHash] = AnyOutcome
                THEN swept ELSE swept \cup {check.txHash}
    /\ UNCHANGED <<raised, feedVars>>
    /\ UNCHANGED <<now, events, issued, ui, call, poll, pollingTxHash, queried, upstream>>

(* ------------------------- Header and TxHistory ----------------------- *)
\* Header's mount effect: checkPendingTransactions() and setInterval
HeaderMount ==
    /\ ui = "init"
    /\ ui' = "header"
    /\ NotifierEffect(transactions)
    /\ checkPendingTransactions(LowestFree(Sweeps, SweepFree))
    /\ UNCHANGED <<raised, feedVars>>
    /\ UNCHANGED <<transactions, storage, now, events, issued, call, poll,
                   pollingTxHash, upstream, swept>>

\* the 30 s interval of Header fires
SweepTimer(s) ==
    /\ events < MaxEvents
    /\ events' = events + 1
    /\ ui # "init"
    /\ s = LowestFree(Sweeps, SweepFree)
    /\ checkPendingTransactions(s)
    /\ UNCHANGED <<raised, feedVars>>
    /\ UNCHANGED <<transactions, storage, previousTxs, notified, now, issued, ui, call, poll,
                   pollingTxHash, upstream, swept>>

\* the same interval as a timer that never stops firing while Header is
\* mounted: setInterval(..., 30000) has no end
SweepInterval(s) ==
    /\ ui # "init"
    /\ s = LowestFree(Sweeps, SweepFree)
    /\ checkPendingTransactions(s)
    /\ UNCHANGED <<raised, feedVars>>
    /\ UNCHANGED <<transactions, storage, previousTxs, notified, now, events, issued, ui,
                   call, poll, pollingTxHash, upstream, swept>>

\* TxHistory's mount effect: clearOldTransactions(30)
HistoryMount ==
    /\ ui = "header"
    /\ ui' = "ready"
    /\ SetTransactions(clearOldTransactions(transactions, RETENTION_DAYS, now))
    /\ UNCHANGED <<raised, feedVars>>
    /\ UNCHANGED <<now, events, issued, call, poll, sweep, pollingTxHash, queried, upstream, swept>>

\* Header, and TxHistory inside it, unmount (the user leaves for a page
\* without them): the cleanup of Header's effect clears the interval, the
\* state of both components is dropped; the store and the invocations in
\* flight are untouched, pollTransaction takes nothing that could stop it
HeaderUnmount ==
    /\ events < MaxEvents
    /\ events' = events + 1
    /\ ui # "init"
    /\ ui' = "init"
    /\ poll' = [p \in Polls |->
                  IF poll[p].pc \in {"sleep", "query"}
                  THEN [poll[p] EXCEPT !.abandoned = TRUE] ELSE poll[p]]
    /\ pollingTxHash' = None
    /\ previousTxs' = NoStatusSeen
    /\ UNCHANGED <<raised, feedVars>>
    /\ UNCHANGED <<transactions, storage, notified, now, issued, call, sweep, queried,
                   upstream, swept>>

(* ------------------------- restart and clock -------------------------- *)
\* the tab is closed or crashes and the app is loaded again: every
\* invocation in flight is gone, the store is rehydrated from localStorage
Restart ==
    /\ events < MaxEvents
    /\ events' = events + 1
    /\ ui # "init"
    /\ transactions' = Rehydrate(storage)
    /\ ui' = "init"
    /\ call' = [c \in Calls |-> IdleProc]
    /\ poll' = [p \in Polls |-> IdleProc]
    /\ sweep' = [s \in Sweeps |-> IdleSweep]
    /\ pollingTxHash' = None
    /\ previousTxs' = NoStatusSeen
    /\ UNCHANGED <<raised, feedVars>>
    /\ UNCHANGED <<storage, notified, now, issued, queried, upstream, swept>>

\* time passes
Tick(d) ==
    /\ events < MaxEvents
    /\ events' = events + 1
    /\ now' = now + d
    /\ UNCHANGED <<raised, feedVars>>
    /\ UNCHANGED <<transactions, storage, previousTxs, notified, issued, ui, call, poll, sweep,
                   pollingTxHash, queried, upstream, swept>>

Next ==
    \/ \E c \in Calls : CallContract(c)
    \/ \E c \in Calls, ok \in BOOLEAN : CallGetAccountDone(c, ok)
    \/ \E c \in Calls, r \in {"ok", "simError", "throw"} : CallSimulateDone(c, r)
    \/ \E c \in Calls, ok \in BOOLEAN : CallSignDone(c, ok)
    \/ \E c \in Calls, r \in {"ERROR", "hash", "throw"} : CallSendDone(c, r)
    \/ \E c \in Calls : CallTimer(c)
    \/ \E c \in Calls, ans \in GetTxAnswers : CallGetTxDone(c, ans)
    \/ \E p \in Polls, h \in Hashes : HandleRetryPoll(p, h)
    \/ \E p \in Polls : PollTimer(p)
    \/ \E p \in Polls, ans \in GetTxAnswers : PollGetTxDone(p, ans)
    \/ HeaderMount
    \/ \E s \in Sweeps : SweepTimer(s)
    \/ \E s \in Sweeps, ans \in GetTxAnswers :
          \E check \in sweep[s].checks : SweepCheckDone(s, check, ans)
    \/ HistoryMount
    \/ Restart
    \/ \E d \in TickSteps : Tick(d)

Spec == Init /\ [][Next]_vars

(* --------------- the ledger reports one outcome per hash --------------- *)
\* the same program against a ledger whose answer for a hash never changes:
\* the outcome of a hash is drawn when the hash is handed out
InitFixed ==
    /\ transactions = <<>>
    /\ storage = <<>>
    /\ now = 0
    /\ events = 0
    /\ issued = 0
    /\ ui = "init"
    /\ call = [c \in Calls |-> IdleProc]
    /\ poll = [p \in Polls |-> IdleProc]
    /\ sweep = [s \in Sweeps |-> IdleSweep]
    /\ pollingTxHash = None
    /\ queried = {}
    /\ upstream = [h \in Hashes |-> NotDrawn]
    /\ swept = {}
    /\ raised = None
    /\ NotifierInit
    /\ FeedInit

SpecFixed == InitFixed /\ [][Next]_vars

\* the reconciler on its own: the page is loaded with pending records of an
\* earlier session in localStorage, each with a fixed outcome on the ledger;
\* Header mounts, its interval fires for ever, the page is reloaded, time
\* passes; every query is answered (the outcome of its hash, or NOT_FOUND
\* for a hash the ledger never sees). Fairness: the page, once loaded,
\* mounts Header; the interval fires; the query of a check settles
MaxStored == 2
RECURSIVE StoredPending(_)
StoredPending(n) ==
    IF n = 0 THEN <<>>
    ELSE addTransaction(StoredPending(n - 1), CallRecord(HashOf[n]), 0)
StoredHashes == {HashOf[n] : n \in 1..MaxStored}
InitSweep ==
    \E n \in 1..MaxStored :
        /\ storage = Persist(StoredPending(n))
        /\ transactions = Rehydrate(storage)
        /\ now = 0
        /\ events = 0
        /\ issued = n
        /\ ui = "init"
        /\ call = [c \in Calls |-> IdleProc]
        /\ poll = [p \in Polls |-> IdleProc]
        /\ sweep = [s \in Sweeps |-> IdleSweep]
        /\ pollingTxHash = None
        /\ queried = {}
        /\ upstream \in {u \in [Hashes -> Outcomes \cup {NotDrawn}] :
                            \A k \in 1..Len(HashOf) :
                                HashOf[k] \in Hashes => (u[HashOf[k]] = NotDrawn <=> k > n)}
        /\ swept = {}
        /\ raised = None
        /\ NotifierInit
        /\ FeedInit
\* the query of one check of sweep s is answered
SweepSettles(s) ==
    \E ans \in Outcomes : \E check \in sweep[s].checks : SweepCheckDone(s, check, ans)
NextSweep ==
    \/ HeaderMount
    \/ \E s \in Sweeps : SweepInterval(s)
    \/ \E s \in Sweeps : SweepSettles(s)
    \/ Restart
    \/ \E d \in TickSteps : Tick(d)
FairSpecSweep ==
    /\ InitSweep
    /\ [][NextSweep]_vars
    /\ WF_vars(HeaderMount)
    /\ WF_vars(\E s \in Sweeps : SweepInterval(s))
    /\ \A s \in Sweeps : WF_vars(SweepSettles(s))

\* the program with the user also leaving the pages that show Header
NextNav ==
    \/ Next
    \/ HeaderUnmount
SpecNav == Init /\ [][NextNav]_vars

(* ------------------- the store called directly ------------------------ *)
\* clearOldTransactions(olderThanDays) called with any argument
PurgeDays == {0, 1, RETENTION_DAYS}
ClearOldTransactionsCall(days) ==
    /\ events < MaxEvents
    /\ events' = events + 1
    /\ SetTransactions(clearOldTransactions(transactions, days, now))
    /\ raised' = None
    /\ UNCHANGED feedVars
    /\ UNCHANGED <<now, issued, ui, call, poll, sweep, pollingTxHash, queried,
                   upstream, swept>>

\* addTransaction(tx) called with any hash, present or not
AddTransactionCall(h) ==
    /\ events < MaxEvents
    /\ events' = events + 1
    /\ SetTransactions(addTransaction(transactions, CallRecord(h), now))
    /\ raised' = None
    /\ UNCHANGED feedVars
    /\ UNCHANGED <<now, issued, ui, call, poll, sweep, pollingTxHash, queried,
                   upstream, swept>>

\* the updates the callers of the store write
TerminalUpdates ==
    {[status |-> "success", result |-> v] : v \in ReturnValues}
        \cup {[status |-> "failed", error |-> ERR_ONCHAIN]}
\* updateTransaction(txHash, updates) called with any hash, present or not;
\* the function has no throw and returns undefined
UpdateTransactionCall(h, updates) ==
    /\ events < MaxEvents
    /\ events' = events + 1
    /\ SetTransactions(updateTransaction(transactions, h, updates))
    /\ raised' = None
    /\ UNCHANGED feedVars
    /\ UNCHANGED <<now, issued, ui, call, poll, sweep, pollingTxHash, queried,
                   upstream, swept>>

\* addTransaction(tx) and updateTransaction(tx.txHash, updates) called in one
\* task: React renders once after both, the notifier's effect runs once
AddThenUpdateCall(h, updates) ==
    /\ events < MaxEvents
    /\ events' = events + 1
    /\ SetTransactions(updateTransaction(
           addTransaction(transactions, CallRecord(h), now), h, updates))
    /\ raised' = None
    /\ UNCHANGED feedVars
    /\ UNCHANGED <<now, issued, ui, call, poll, sweep, pollingTxHash, queried,
                   upstream, swept>>

NextApi ==
    \/ Next
    \/ \E h \in Hashes, updates \in TerminalUpdates : AddThenUpdateCall(h, updates)
    \/ \E days \in PurgeDays : ClearOldTransactionsCall(days)
    \/ \E h \in Hashes : AddTransactionCall(h)
    \/ \E h \in Hashes, updates \in TerminalUpdates : UpdateTransactionCall(h, updates)

SpecApi == Init /\ [][NextApi]_vars

(* ====================================================================== *)
(*        the ledger feed and its fan-out (websocket-server.ts)           *)
(* ====================================================================== *)
Min(a, b) == IF a < b THEN a ELSE b

\* clients.forEach((ws) => { if (ws.readyState === OPEN) ws.send(msg) }):
\* the sockets of cl are visited in insertion order; a send that raises
\* ends the iteration, and the error leaves broadcast
RECURSIVE Deliver(_, _, _, _)
Deliver(cl, rs, fl, to) ==
    IF cl = <<>> THEN [to |-> to, threw |-> FALSE]
    ELSE IF rs[Head(cl)] # "OPEN" THEN Deliver(Tail(cl), rs, fl, to)
    ELSE IF Head(cl) \in fl THEN [to |-> to, threw |-> TRUE]
    ELSE Deliver(Tail(cl), rs, fl, Append(to, Head(cl)))

\* broadcast(event)
broadcast(type, retryMs) ==
    LET d == Deliver(clients, readyState, failing, <<>>)
    IN  [seq |-> lastBroadcast.seq + 1, type |-> type, retryMs |-> retryMs,
         to |-> d.to, threw |-> d.threw]

\* clients.delete(ws)
SetDelete(cl, ws) == SelectSeq(cl, LAMBDA x : x # ws)

\* variant: no timer is set
NewTimer_Never(delay) == NoTimer
\* the timer scheduleReconnect sets
NewTimer(delay) == [pending |-> TRUE, delay |-> delay]

\* startLedgerStream(): streamLedgers returns the closer at once, the
\* connection is made later
startLedgerStream ==
    /\ stopStream' = "closer"
    /\ stream' = "connecting"
    /\ errorPending' = FALSE

\* setupWebSocketServer(server)
SetupWebSocketServer ==
    /\ wss = "none"
    /\ wss' = "listening"
    /\ startLedgerStream
    /\ UNCHANGED <<clients, readyState, failing, currentBackoff, reconnectTimer,
                   late, lastBroadcast, fevents, lawDelay, ledgerSince>>
    /\ openStreams' = openStreams + 1
    /\ UNCHANGED <<degraded, armed>>
    /\ UNCHANGED <<storeVars, raised>>

\* wss.on("connection"): the socket is added and greeted
Connection(ws) ==
    /\ fevents < MaxFeedEvents
    /\ fevents' = fevents + 1
    /\ wss = "listening"
    /\ readyState[ws] = "NEW"
    /\ \A x \in Sockets : x < ws => readyState[x] # "NEW"
    /\ readyState' = [readyState EXCEPT ![ws] = "OPEN"]
    /\ clients' = Append(clients, ws)
    /\ UNCHANGED <<wss, failing, currentBackoff, stopStream, reconnectTimer,
                   stream, late, lastBroadcast, lawDelay, errorPending, ledgerSince>>
    /\ UNCHANGED <<degraded, openStreams, armed>>
    /\ UNCHANGED <<storeVars, raised>>

\* the closing handshake of a socket begins: it is no longer OPEN
ClientClosing(ws) ==
    /\ fevents < MaxFeedEvents
    /\ fevents' = fevents + 1
    /\ readyState[ws] = "OPEN"
    /\ readyState' = [readyState EXCEPT ![ws] = "CLOSING"]
    /\ UNCHANGED <<wss, clients, failing, currentBackoff, stopStream,
                   reconnectTimer, stream, late, lastBroadcast, lawDelay,
                   errorPending, ledgerSince>>
    /\ UNCHANGED <<degraded, openStreams, armed>>
    /\ UNCHANGED <<storeVars, raised>>

\* ws.on("close")
ClientClose(ws) ==
    /\ fevents < MaxFeedEvents
    /\ fevents' = fevents + 1
    /\ readyState[ws] \in {"OPEN", "CLOSING"}
    /\ readyState' = [readyState EXCEPT ![ws] = "CLOSED"]
    /\ clients' = SetDelete(clients, ws)
    /\ UNCHANGED <<wss, failing, currentBackoff, stopStream, reconnectTimer,
                   stream, late, lastBroadcast, lawDelay, errorPending, ledgerSince>>
    /\ UNCHANGED <<degraded, openStreams, armed>>
    /\ UNCHANGED <<storeVars, raised>>

\* ws.on("error"): the socket is on its way to closing
ClientError(ws) ==
    /\ fevents < MaxFeedEvents
    /\ fevents' = fevents + 1
    /\ readyState[ws] = "OPEN"
    /\ readyState' = [readyState EXCEPT ![ws] = "CLOSING"]
    /\ clients' = SetDelete(clients, ws)
    /\ UNCHANGED <<wss, failing, currentBackoff, stopStream, reconnectTimer,
                   stream, late, lastBroadcast, lawDelay, errorPending, ledgerSince>>
    /\ UNCHANGED <<degraded, openStreams, armed>>
    /\ UNCHANGED <<storeVars, raised>>

\* the connection of the stream started last is established
StreamOpen ==
    /\ stream = "connecting"
    /\ stream' = "open"
    /\ UNCHANGED <<wss, clients, readyState, failing, currentBackoff, stopStream,
                   reconnectTimer, late, lastBroadcast, fevents, lawDelay,
                   errorPending, ledgerSince>>
    /\ UNCHANGED <<degraded, openStreams, armed>>
    /\ UNCHANGED <<storeVars, raised>>

\* onLedger: the backoff is reset, the ledger is broadcast
LedgerMessage ==
    /\ fevents < MaxFeedEvents
    /\ fevents' = fevents + 1
    /\ stream = "open"
    /\ currentBackoff' = INITIAL_BACKOFF_MS
    /\ lastBroadcast' = broadcast("LEDGER_CLOSED", 0)
    /\ lawDelay' = INITIAL_BACKOFF_MS
    /\ ledgerSince' = TRUE
    /\ UNCHANGED <<wss, clients, readyState, failing, stopStream, reconnectTimer,
                   stream, late, errorPending>>
    /\ UNCHANGED <<degraded, openStreams, armed>>
    /\ UNCHANGED <<storeVars, raised>>

\* variant: the guard of scheduleReconnect never sees a timer
HasTimer_Never == FALSE
\* if (reconnectTimer) return
HasTimer == reconnectTimer.pending

\* scheduleReconnect(): nothing while a timer is pending; otherwise the
\* delay is announced and the timer is set (unless broadcast raised)
scheduleReconnect ==
    IF HasTimer
    THEN UNCHANGED <<reconnectTimer, lastBroadcast, lawDelay, degraded, armed>>
    ELSE LET b == broadcast("reconnecting", currentBackoff) IN
         /\ lastBroadcast' = b
         /\ degraded' = TRUE
         /\ reconnectTimer' = IF b.threw THEN reconnectTimer
                              ELSE NewTimer(currentBackoff)
         /\ armed' = IF ~b.threw /\ NewTimer(currentBackoff).pending
                     THEN armed + 1 ELSE armed
         /\ lawDelay' = Min(lawDelay * 2, MAX_BACKOFF_MS)

\* onError of the stream started last; the stream is kept until the timer
\* fires and may come back by itself
StreamError ==
    /\ fevents < MaxFeedEvents
    /\ fevents' = fevents + 1
    /\ stream \in {"connecting", "open"}
    /\ stream' = "connecting"
    /\ errorPending' = TRUE
    /\ ledgerSince' = FALSE
    /\ scheduleReconnect
    /\ UNCHANGED <<wss, clients, readyState, failing, currentBackoff, stopStream, late>>
    /\ UNCHANGED openStreams
    /\ UNCHANGED <<storeVars, raised>>

\* onError of a stream that has been stopped: the callback was already queued
LateStreamError ==
    /\ fevents < MaxFeedEvents
    /\ fevents' = fevents + 1
    /\ late
    /\ late' = FALSE
    /\ errorPending' = TRUE
    /\ ledgerSince' = FALSE
    /\ scheduleReconnect
    /\ UNCHANGED <<wss, clients, readyState, failing, currentBackoff, stopStream, stream>>
    /\ UNCHANGED openStreams
    /\ UNCHANGED <<storeVars, raised>>

\* variant: the stream is left open
StopStream_Leak(n) == n
\* if (stopStream) { stopStream(); stopStream = null }: the number of open
\* streams after it; the closer returned by streamLedgers closes the stream
StopStream(n) == IF stopStream # None THEN n - 1 ELSE n

\* the callback of the reconnect timer: the previous stream is stopped, a
\* new one is started, "reconnected" is broadcast, the backoff is doubled
ReconnectTimerFired ==
    /\ armed > 0
    /\ armed' = armed - 1
    /\ reconnectTimer' = NoTimer
    /\ late' = (late \/ stopStream # None)
    /\ openStreams' = StopStream(openStreams) + 1
    /\ degraded' = FALSE
    /\ startLedgerStream
    /\ LET b == broadcast("reconnected", 0) IN
       /\ lastBroadcast' = b
       /\ currentBackoff' = IF b.threw THEN currentBackoff
                            ELSE Min(currentBackoff * 2, MAX_BACKOFF_MS)
    /\ UNCHANGED <<wss, clients, readyState, failing, fevents, lawDelay, ledgerSince>>
    /\ UNCHANGED <<storeVars, raised>>

\* wss.on("close"): the timer is cleared, the stream is stopped
Shutdown ==
    /\ fevents < MaxFeedEvents
    /\ fevents' = fevents + 1
    /\ wss = "listening"
    /\ wss' = "closed"
    /\ reconnectTimer' = NoTimer
    /\ late' = (late \/ stopStream # None)
    /\ stream' = IF stopStream # None THEN "none" ELSE stream
    /\ stopStream' = None
    /\ openStreams' = StopStream(openStreams)
    /\ armed' = IF reconnectTimer.pending THEN armed - 1 ELSE armed
    /\ UNCHANGED degraded
    /\ UNCHANGED <<clients, readyState, failing, currentBackoff, lastBroadcast,
                   lawDelay, errorPending, ledgerSince>>
    /\ UNCHANGED <<storeVars, raised>>

NextFeed ==
    \/ SetupWebSocketServer
    \/ \E ws \in Sockets : Connection(ws)
    \/ \E ws \in Sockets : ClientClosing(ws)
    \/ \E ws \in Sockets : ClientClose(ws)
    \/ \E ws \in Sockets : ClientError(ws)
    \/ StreamOpen
    \/ LedgerMessage
    \/ StreamError
    \/ LateStreamError
    \/ ReconnectTimerFired
    \/ Shutdown

SpecFeed == Init /\ [][NextFeed]_vars

\* the timers of the event loop fire
FairSpecFeed == Init /\ [][NextFeed]_vars /\ WF_vars(ReconnectTimerFired)

(* --------------------- a socket whose write fails --------------------- *)
\* from now on send() on this socket raises
ClientBreak(ws) ==
    /\ fevents < MaxFeedEvents
    /\ fevents' = fevents + 1
    /\ readyState[ws] = "OPEN"
    /\ ws \notin failing
    /\ failing' = failing \cup {ws}
    /\ UNCHANGED <<wss, clients, readyState, currentBackoff, stopStream,
                   reconnectTimer, stream, late, lastBroadcast, lawDelay,
                   errorPending, ledgerSince>>
    /\ UNCHANGED <<degraded, openStreams, armed>>
    /\ UNCHANGED <<storeVars, raised>>

\* broadcastCampaignEvent / broadcastAuctionEvent: broadcast called by a route
BroadcastEvent ==
    /\ fevents < MaxFeedEvents
    /\ fevents' = fevents + 1
    /\ lastBroadcast' = broadcast("campaign_created", 0)
    /\ UNCHANGED <<wss, clients, readyState, failing, currentBackoff, stopStream,
                   reconnectTimer, stream, late, lawDelay, errorPending, ledgerSince>>
    /\ UNCHANGED <<degraded, openStreams, armed>>
    /\ UNCHANGED <<storeVars, raised>>

NextFanout ==
    \/ NextFeed
    \/ \E ws \in Sockets : ClientBreak(ws)
    \/ BroadcastEvent

SpecFanout == Init /\ [][NextFanout]_vars

(* ====================================================================== *)
(*                               properties                               *)
(* ====================================================================== *)
StatusIn(txs, h) == IF HasTx(txs, h) THEN TxOf(txs, h).status ELSE "absent"
PendingIn(txs, h) == StatusIn(txs, h) = "pending"
AgeOf(txs, h, t) == t - TxOf(txs, h).timestamp
NotFound == [status |-> "NOT_FOUND", returnValue |-> None]
PreHash == {"getAccount", "simulate", "sign", "send"}

\* C1: status is monotonic: the only status changes of a record are
\* pending -> success and pending -> failed; a record that is success or
\* failed never has another status afterwards.
C1_StatusMonotonic ==
    [][\A h \in Hashes :
          (HasTx(transactions, h) /\ HasTx(transactions', h)
             /\ StatusIn(transactions', h) # StatusIn(transactions, h))
          => StatusIn(transactions, h) = "pending"]_vars

\* C2: once sendTransaction has returned a hash, a pending record with that
\* hash is in the persisted store before the first getTransaction for the
\* hash is issued, so a restart before that point finds the pending record.
C2_RecordBeforeFirstQuery ==
    [][/\ \A h \in Hashes :
             (h \notin queried /\ h \in queried')
             => (PendingIn(transactions, h) /\ PendingIn(storage, h))
       /\ \A c \in Calls :
             (call'[c].pc \in {"sleep", "query"} /\ call'[c].txHash \notin queried')
             => (PendingIn(transactions', call'[c].txHash)
                 /\ PendingIn(storage', call'[c].txHash))
       /\ (ui # "init" /\ ui' = "init")
             => \A h \in Hashes :
                   PendingIn(storage, h) => PendingIn(transactions', h)]_vars
\* a restart has happened while the record of a never-queried hash was
\* pending: the reloaded store holds it
C2_Witness ==
    /\ ui = "init"
    /\ \A c \in Calls : call[c].pc = "idle"
    /\ \E h \in Hashes : h \notin queried /\ PendingIn(transactions, h)

\* C3: when callContract fails before a hash is obtained (getAccount,
\* simulation, signing or sendTransaction fails), it returns an error
\* result without a hash and the store is unchanged.
C3_NoRecordOnSubmissionError ==
    [][\A c \in Calls :
          (call[c].pc \in PreHash /\ call'[c].pc \in PreHash \cup {"done"}
             /\ call'[c] # call[c])
          => /\ transactions' = transactions
             /\ storage' = storage
             /\ call'[c].pc = "done"
                  => /\ ~call'[c].ret.success
                     /\ call'[c].ret.txHash = None
                     /\ call'[c].ret.error \in {ERR_THROWN, ERR_SIMULATION, ERR_SUBMISSION}]_vars
\* a submission was rejected while the store held a record
C3_Witness ==
    \E c \in Calls :
        /\ call[c].pc = "done"
        /\ call[c].ret.error = ERR_SUBMISSION
        /\ Len(transactions) = 1
        /\ issued = 1

C5_PollTimeout ==
    [][/\ \A c \in Calls :
             (call[c].pc = "query" /\ call'[c].pc = "done"
                /\ ~call'[c].ret.success /\ call'[c].ret.error # ERR_ONCHAIN)
             => /\ call[c].queries = CALL_POLL_ATTEMPTS
                /\ call'[c].ret.error = ERR_CALL_TIMEOUT
                /\ transactions' = transactions
       /\ \A p \in Polls :
             (poll[p].pc = "query" /\ poll'[p].pc = "done"
                /\ ~poll'[p].ret.success /\ poll'[p].ret.error # ERR_ONCHAIN)
             => /\ poll[p].queries = RETRY_POLL_ATTEMPTS
                /\ poll'[p].ret.error = ERR_POLL_TIMEOUT
                /\ transactions' = transactions
       /\ ERR_CALL_TIMEOUT # ERR_ONCHAIN /\ ERR_POLL_TIMEOUT # ERR_ONCHAIN]_vars

\* C6: in a sweep, a pending record whose query answers NOT_FOUND is marked
\* failed with the expired reason if and only if its age is >= 24 hours;
\* below that it stays pending.
C6_ExpiryAtThreshold ==
    [][\A s \in Sweeps : \A check \in sweep[s].checks :
          (SweepCheckDone(s, check, NotFound) /\ PendingIn(transactions, check.txHash))
          => IF AgeOf(transactions, check.txHash, now) >= EXPIRY_HOURS
             THEN /\ StatusIn(transactions', check.txHash) = "failed"
                  /\ TxOf(transactions', check.txHash).error = ERR_EXPIRED
             ELSE PendingIn(transactions', check.txHash)]_vars

\* C7: sweep failure isolation: when the query of one check of a sweep
\* raises an error, that record is left as it was, the other checks of the
\* sweep stay outstanding and are settled by their own answers, every check
\* touches only the record it is about, and the sweep is never rejected.
C7_SweepIsolation ==
    [][/\ \A s \in Sweeps : sweep'[s].state \in {"idle", "running"}
       /\ \A s \in Sweeps : \A check \in sweep[s].checks : \A ans \in GetTxAnswers :
             SweepCheckDone(s, check, ans)
             => /\ sweep'[s].checks = sweep[s].checks \ {check}
                /\ \A k \in DOMAIN transactions :
                      transactions[k].txHash # check.txHash
                      => (k \in DOMAIN transactions' /\ transactions'[k] = transactions[k])
                /\ ans.status = "THROW" => transactions' = transactions
                /\ (ans.status = "SUCCESS" /\ HasTx(transactions, check.txHash))
                      => StatusIn(transactions', check.txHash) = "success"
                /\ (ans.status = "FAILED" /\ HasTx(transactions, check.txHash))
                      => StatusIn(transactions', check.txHash) = "failed"
       /\ \A s \in Sweeps :
             (sweep[s].state # "running" /\ sweep'[s].state = "running")
             => /\ sweep'[s].checks = SweepChecks(transactions)
                /\ {c.txHash : c \in sweep'[s].checks} \subseteq queried']_vars
\* a sweep over two pending records: one check has settled and left its
\* record pending, the other is still outstanding
C7_Witness ==
    \E s \in Sweeps :
        /\ sweep[s].state = "running"
        /\ Cardinality(sweep[s].checks) = 1
        /\ Len(getPendingTransactions(transactions)) = 2
        /\ \A t \in Sweeps : t # s => sweep[t].state = "idle"
        /\ \A c \in Calls : call[c].pc = "done"

\* the state a single run of one reconciler mode leaves a record in, for the
\* fixed upstream outcome of its hash: untouched (pending), or what the poll
\* of callContract, pollTransaction or a sweep writes for that outcome
SingleRunState(tx, t) ==
    LET o == upstream[tx.txHash] IN
    \/ tx.status = "pending" /\ tx.result = None /\ tx.error = None
    \/ /\ o.status = "SUCCESS"
       /\ tx.status = "success" /\ tx.error = None
       /\ tx.result \in {o.returnValue, CallResult(o.returnValue),
                         JsonRoundTrip(o.returnValue),
                         JsonRoundTrip(CallResult(o.returnValue))}
    \/ /\ o.status = "FAILED"
       /\ tx.status = "failed" /\ tx.error = ERR_ONCHAIN /\ tx.result = None
    \/ /\ o.status = "NOT_FOUND"
       /\ tx.status = "failed" /\ tx.error = ERR_EXPIRED /\ tx.result = None
       /\ t - tx.timestamp > EXPIRY_HOURS
C8_SingleRun == \A k \in DOMAIN transactions : SingleRunState(transactions[k], now)

\* C8 (as stated): with the upstream outcome of every hash fixed, any
\* interleaving of an active poll with sweeps, or of overlapping sweeps,
\* leaves each record in the state a single run of one of them leaves it
\* in; and a sweep check on a hash that a sweep has already got an answer
\* for changes nothing in the store.
C8_SecondSweepChangesNothing ==
    /\ []C8_SingleRun
    /\ [][\A s \in Sweeps : \A check \in sweep[s].checks : \A ans \in GetTxAnswers :
             (SweepCheckDone(s, check, ans) /\ check.txHash \in swept /\ ans # NotAnswer)
             => transactions' = transactions]_vars

\* C8 (amended): with the upstream outcome of every hash fixed, any
\* interleaving of an active poll with sweeps, or of overlapping sweeps,
\* leaves each record in the state a single run of one of them leaves it
\* in; and a sweep check on a hash that a sweep has already got an answer
\* for changes no status and no error, and no other record, except that a
\* pending record whose answer is still NOT_FOUND and whose age has passed
\* 24 hours in the meantime is marked failed as expired.
C8_Idempotent ==
    /\ []C8_SingleRun
    /\ [][\A s \in Sweeps : \A check \in sweep[s].checks : \A ans \in GetTxAnswers :
             (SweepCheckDone(s, check, ans) /\ check.txHash \in swept /\ ans # NotAnswer)
             => /\ DOMAIN transactions' = DOMAIN transactions
                /\ \A k \in DOMAIN transactions :
                      \/ /\ transactions'[k].status = transactions[k].status
                         /\ transactions'[k].error = transactions[k].error
                         /\ transactions[k].txHash # check.txHash
                              => transactions'[k] = transactions[k]
                      \/ /\ transactions[k].txHash = check.txHash
                         /\ ans = NotFound
                         /\ transactions[k].status = "pending"
                         /\ now - check.timestamp > EXPIRY_HOURS
                         /\ transactions'[k].status = "failed"
                         /\ transactions'[k].error = ERR_EXPIRED]_vars
\* two overlapping sweeps: one has settled the record of a hash, the other
\* still has its check of that hash outstanding
C8_Witness ==
    \E s \in Sweeps : \E check \in sweep[s].checks :
        /\ check.txHash \in swept
        /\ HasTx(transactions, check.txHash)
        /\ ~PendingIn(transactions, check.txHash)
        /\ \E t \in Sweeps : t # s /\ sweep[t].state = "idle"

\* C9: a purge (clearOldTransactions, with any number of days including 0,
\* at any record age) removes no pending record: the pending records before
\* and after it are the same, in the store and in its persisted copy.
C9_PurgeKeepsPending ==
    [][(HistoryMount \/ \E days \in PurgeDays : ClearOldTransactionsCall(days))
       => /\ getPendingTransactions(transactions') = getPendingTransactions(transactions)
          /\ getPendingTransactions(storage') = getPendingTransactions(storage)
          /\ \A h \in Hashes : PendingIn(transactions, h) => PendingIn(transactions', h)
          /\ \A h \in Hashes : HasTx(transactions', h) => HasTx(transactions, h)]_vars
\* a purge has removed a resolved record and kept a pending one
C9_Witness ==
    /\ Len(transactions) < issued
    /\ \E h \in Hashes : PendingIn(transactions, h)
    /\ \A c \in Calls : call[c].pc # "idle"

\* C10: a record that has been added and is not resolved stays in the
\* store: no step (submit, poll, poll timeout, query error, sweep, purge on
\* history open, restart) removes a pending record from the store or from
\* its persisted copy, and a restart brings back every persisted record.
C10_NeverDropped ==
    [][/\ \A h \in Hashes : PendingIn(transactions, h) => HasTx(transactions', h)
       /\ \A h \in Hashes : PendingIn(storage, h) => HasTx(storage', h)
       /\ (ui # "init" /\ ui' = "init")
             => \A h \in Hashes : HasTx(storage, h) => HasTx(transactions', h)]_vars
\* after a restart the store holds the pending record of a transaction
\* whose poll had been querying before the restart
C10_Witness ==
    /\ \A c \in Calls : call[c].pc = "idle"
    /\ \A p \in Polls : poll[p].pc = "idle"
    /\ \E h \in Hashes : h \in queried /\ PendingIn(transactions, h)

\* C11: the store holds one record per transaction id: after any sequence
\* of addTransaction, updateTransaction and clearOldTransactions calls,
\* addTransaction with a hash that is already present included, no two
\* records of the store share a txHash.
C11_OneRecordPerHash ==
    \A j, k \in DOMAIN transactions :
        j # k => transactions[j].txHash # transactions[k].txHash

\* C12: updateTransaction on a hash that is not in the store raises
\* NotFound to its caller and leaves the store unchanged.
C12_UpdateNotFound ==
    [][\A h \in Hashes : \A updates \in TerminalUpdates :
          (UpdateTransactionCall(h, updates) /\ ~HasTx(transactions, h))
          => (raised' = "NotFound" /\ transactions' = transactions)]_vars

\* C13: updateTransaction with the terminal status and outcome a record
\* already has changes nothing and raises no error; updateTransaction with
\* the other terminal status (success on a failed record, failed on a
\* success record) raises InvalidTransition and leaves the record unchanged.
C13_UpdateIdempotence ==
    [][\A h \in Hashes : \A updates \in TerminalUpdates :
          (UpdateTransactionCall(h, updates) /\ HasTx(transactions, h)
             /\ StatusIn(transactions, h) # "pending")
          => IF Spread(TxOf(transactions, h), updates) = TxOf(transactions, h)
             THEN raised' = None /\ transactions' = transactions
             ELSE IF updates.status # StatusIn(transactions, h)
             THEN raised' = "InvalidTransition" /\ transactions' = transactions
             ELSE TRUE]_vars

\* this step is a call of broadcast
Broadcasts == lastBroadcast'.seq # lastBroadcast.seq
\* this step broadcasts an event of the given type
Emits(type) == Broadcasts /\ lastBroadcast'.type = type
InSet(cl, ws) == \E k \in DOMAIN cl : cl[k] = ws

\* C14: backoff law: in a run of upstream failures with no ledger message
\* in between, the k-th "reconnecting" event announces, and the k-th timer
\* is set with, min(D0 * 2^(k-1), Dmax), D0 = 1000 and Dmax = 30000 (the
\* value lawDelay follows), as long as the server is not closed; and only
\* a delivered ledger message lowers the delay.
C14_BackoffLaw ==
    [][/\ (Emits("reconnecting") /\ wss = "listening")
            => /\ lastBroadcast'.retryMs = lawDelay
               /\ reconnectTimer' = NewTimer(lawDelay)
       /\ currentBackoff' < currentBackoff => Emits("LEDGER_CLOSED")]_vars

\* C15: one delivered ledger message resets the backoff: a failure that is
\* announced after at least one ledger message was delivered since the
\* previous failure announces D0 = 1000, also when that ledger message came
\* while the timer of the previous failure was pending.
C15_LedgerResetsBackoff ==
    [][(Emits("reconnecting") /\ ledgerSince)
          => lastBroadcast'.retryMs = INITIAL_BACKOFF_MS]_vars

\* C16: "reconnected" is broadcast only when the reconnection attempt has
\* re-established the upstream stream: at a "reconnected" event the stream
\* started by the attempt is open, and an attempt whose stream reports an
\* error before it is open has emitted no "reconnected".
C16_ReconnectedOnlyOnSuccess ==
    [][Emits("reconnected") => stream' = "open"]_vars

C18_QuietAfterShutdown ==
    [][/\ (wss = "listening" /\ wss' = "closed")
            => (~reconnectTimer'.pending /\ stopStream' = None /\ stream' = "none")
       /\ wss = "closed"
            => /\ ~(Emits("LEDGER_CLOSED") \/ Emits("reconnecting") \/ Emits("reconnected"))
               /\ ~reconnectTimer'.pending
               /\ stopStream' = None /\ stream' = "none"]_vars

\* the socket a broadcast over cl stops at: the first open one whose send raises
FailsAt(cl, ws) ==
    \E k \in DOMAIN cl :
        /\ cl[k] = ws /\ readyState[ws] = "OPEN" /\ ws \in failing
        /\ \A j \in 1..(k - 1) : ~(readyState[cl[j]] = "OPEN" /\ cl[j] \in failing)

\* C19: fan-out isolation: in every broadcast, each open subscriber whose
\* send does not raise receives the event exactly once, wherever the
\* subscribers whose send raises stand in the iteration order, and no error
\* leaves broadcast.
C19_FanoutIsolation ==
    [][Broadcasts
          => /\ ~lastBroadcast'.threw
             /\ \A ws \in Sockets :
                   (InSet(clients, ws) /\ readyState[ws] = "OPEN" /\ ws \notin failing)
                   => Cardinality({k \in DOMAIN lastBroadcast'.to :
                                       lastBroadcast'.to[k] = ws}) = 1]_vars

\* C20: no dead peers: a socket is out of the set after its close event,
\* after its error event, and after a write to it has failed in a
\* broadcast, and a broadcast delivers only to sockets of the set.
C20_NoDeadPeers ==
    [][/\ \A ws \in Sockets :
             (ClientClose(ws) \/ ClientError(ws)) => ~InSet(clients', ws)
       /\ \A ws \in Sockets :
             (Broadcasts /\ FailsAt(clients, ws)) => ~InSet(clients', ws)
       /\ Broadcasts
             => \A k \in DOMAIN lastBroadcast'.to : InSet(clients', lastBroadcast'.to[k])]_vars

(* ----------------------------- notifier ------------------------------- *)
\* C21: over any sequence of store changes and scans the notifier shows at
\* most one notification per txHash
C21_AtMostOneNotification == \A h \in Hashes : Len(notified[h]) <= 1

\* the kind of notification of a terminal status
KindOf(status) == IF status = "success" THEN "success" ELSE "error"
\* the step takes every record of h from pending to one terminal status
Resolves(h) ==
    /\ HasTx(transactions, h) /\ HasTx(transactions', h)
    /\ \A k \in DOMAIN transactions :
          transactions[k].txHash = h => transactions[k].status = "pending"
    /\ \A k \in DOMAIN transactions' :
          transactions'[k].txHash = h => transactions'[k].status # "pending"
\* the step adds h, absent before, and leaves it resolved
AddsResolved(h) ==
    /\ ~HasTx(transactions, h) /\ HasTx(transactions', h)
    /\ TxOf(transactions', h).status # "pending"

\* C22: every pending -> terminal transition that happens while the notifier
\* is mounted shows exactly one notification, of the kind of the terminal
\* status, also when the record was added and resolved between two scans
C22_NotifiedOncePerTransition ==
    [][\A h \in Hashes :
          (ui # "init" /\ ui' # "init" /\ (Resolves(h) \/ AddsResolved(h)))
          => notified'[h] = Append(notified[h], KindOf(TxOf(transactions', h).status))]_vars

(* ------------------------- abandoning a poll -------------------------- *)
\* C23: once its caller has unmounted, a poll issues no further upstream
\* query and writes nothing to the store
C23_AbandonedPollStops ==
    [][\A p \in Polls :
          poll[p].abandoned
          => /\ ~PollTimer(p)
             /\ \A ans \in GetTxAnswers :
                   PollGetTxDone(p, ans) => transactions' = transactions]_vars

(* ----------------------- outcome fields of a record ------------------- *)
\* C24: in every store state a record has a result only if it is success
\* and an error only if it is failed; none has both and a pending record
\* has neither
C24_OutcomeMatchesStatus ==
    \A k \in DOMAIN transactions :
        LET tx == transactions[k] IN
        /\ tx.result # None => tx.status = "success"
        /\ tx.error # None => tx.status = "failed"
        /\ ~(tx.result # None /\ tx.error # None)
        /\ tx.status = "pending" => (tx.result = None /\ tx.error = None)

(* ------------------------ eventual resolution ------------------------- *)
\* the upstream answers h with a terminal outcome, or with NOT_FOUND while
\* the record of h is older than the expiry threshold
Resolvable(h) ==
    /\ PendingIn(transactions, h)
    /\ \/ upstream[h].status \in {"SUCCESS", "FAILED"}
       \/ upstream[h].status = "NOT_FOUND" /\ AgeOf(transactions, h, now) > EXPIRY_HOURS

\* C25: a pending record whose upstream answers are terminal (or not found,
\* the record being older than the threshold) eventually leaves pending,
\* across restarts of the application too
C25_EventuallyResolved ==
    \A h \in StoredHashes : Resolvable(h) ~> ~PendingIn(transactions, h)
\* a sweep has expired a record that the ledger never saw
C25_Witness ==
    \E h \in Hashes :
        /\ h \in swept
        /\ HasTx(transactions, h)
        /\ TxOf(transactions, h).status = "failed"
        /\ TxOf(transactions, h).error = ERR_EXPIRED

(* --------------------- the result of callContract --------------------- *)
\* C26: once callContract has its hash and has added the pending record,
\* the result it returns carries that txHash, whichever way it returns
C26_ResultCarriesHash ==
    [][\A c \in Calls :
          (call[c].pc \in {"sleep", "query"} /\ call'[c].pc = "done")
          => call'[c].ret.txHash = call[c].txHash]_vars

(* -------------------------- status soundness -------------------------- *)
\* the step is the answer `status` to a query for h of callContract's
\* loop, of pollTransaction or of a sweep check (with the check it answers)
Answered(h, status) ==
    \/ \E c \in Calls, ans \in GetTxAnswers :
          call[c].txHash = h /\ ans.status = status /\ CallGetTxDone(c, ans)
    \/ \E p \in Polls, ans \in GetTxAnswers :
          poll[p].txHash = h /\ ans.status = status /\ PollGetTxDone(p, ans)
    \/ \E s \in Sweeps, ans \in GetTxAnswers : \E check \in sweep[s].checks :
          check.txHash = h /\ ans.status = status /\ SweepCheckDone(s, check, ans)
\* a sweep check of h is answered NOT_FOUND, the record past the threshold
AnsweredExpired(h) ==
    \E s \in Sweeps, ans \in GetTxAnswers : \E check \in sweep[s].checks :
        /\ check.txHash = h /\ ans.status = "NOT_FOUND"
        /\ now - check.timestamp > EXPIRY_HOURS
        /\ SweepCheckDone(s, check, ans)
\* the step is an answer that is a rejection, or NOT_FOUND for a record not
\* past the threshold (callContract and pollTransaction have no threshold)
AnsweredNothing ==
    \/ \E c \in Calls, ans \in GetTxAnswers :
          ans.status \in {"THROW", "NOT_FOUND"} /\ CallGetTxDone(c, ans)
    \/ \E p \in Polls, ans \in GetTxAnswers :
          ans.status \in {"THROW", "NOT_FOUND"} /\ PollGetTxDone(p, ans)
    \/ \E s \in Sweeps, ans \in GetTxAnswers : \E check \in sweep[s].checks :
          /\ \/ ans.status = "THROW"
             \/ ans.status = "NOT_FOUND" /\ now - check.timestamp <= EXPIRY_HOURS
          /\ SweepCheckDone(s, check, ans)

\* C27: a record becomes success only by a SUCCESS answer to a query for its
\* hash, failed only by a FAILED answer or by NOT_FOUND past the age
\* threshold; a query that rejects or answers non-terminally changes no
\* record's status
C27_StatusSound ==
    [][/\ \A h \in Hashes :
          /\ (StatusIn(transactions', h) = "success" /\ StatusIn(transactions, h) # "success")
             => Answered(h, "SUCCESS")
          /\ (StatusIn(transactions', h) = "failed" /\ StatusIn(transactions, h) # "failed")
             => (Answered(h, "FAILED") \/ AnsweredExpired(h))
       /\ AnsweredNothing
          => \A h \in Hashes : StatusIn(transactions', h) = StatusIn(transactions, h)]_vars
\* a record of a queried hash is failed on-chain
C27_Witness ==
    \E h \in queried :
        /\ StatusIn(transactions, h) = "failed"
        /\ TxOf(transactions, h).error = ERR_ONCHAIN

(* ----------------------- frame of a status write --------------------- *)
\* the step is the answer to a query for h, whatever the answer
AnsweredAny(h) == \E status \in {"SUCCESS", "FAILED", "NOT_FOUND", "THROW"} : Answered(h, status)
\* the fields of a record a status write leaves alone
Identity(tx) == <<tx.txHash, tx.type, tx.timestamp, tx.description>>
\* the step starts or advances a sweep
SweepStep ==
    \/ HeaderMount
    \/ \E s \in Sweeps : SweepTimer(s)
    \/ \E s \in Sweeps, ans \in GetTxAnswers :
          \E check \in sweep[s].checks : SweepCheckDone(s, check, ans)

\* C28: a status write for h by a poll or a sweep keeps the number and the
\* order of the records, changes no record of another hash, and changes of
\* the record of h only status, result and error; a sweep neither adds nor
\* removes a record
C28_WriteFrame ==
    [][/\ \A h \in Hashes :
             AnsweredAny(h)
             => /\ DOMAIN transactions' = DOMAIN transactions
                /\ \A k \in DOMAIN transactions :
                      /\ Identity(transactions'[k]) = Identity(transactions[k])
                      /\ transactions[k].txHash # h => transactions'[k] = transactions[k]
       /\ SweepStep
          => /\ DOMAIN transactions' = DOMAIN transactions
             /\ \A k \in DOMAIN transactions :
                   transactions'[k].txHash = transactions[k].txHash]_vars
\* two records, the older one resolved and the newer one still pending
C28_Witness ==
    /\ Len(transactions) = 2
    /\ transactions[1].status = "pending"
    /\ transactions[2].status # "pending"
    /\ transactions[2].txHash \in queried

(* ------------------- the feed while it is reconnecting ---------------- *)
\* C29: between a "reconnecting" event and the next "reconnected" event no
\* LEDGER_CLOSED event is broadcast
C29_NoLedgerWhileReconnecting ==
    [][degraded => ~Emits("LEDGER_CLOSED")]_vars

====
